---------------------------- MODULE Spec2Model ----------------------------
(***************************************************************************)
(* A model of the agency flow-control utility: index.js (the agency: the   *)
(* registry of agents, the evaluator and the scan of runAgents) and        *)
(* lib/agent.js (the agent: id validation, the expression parser, the      *)
(* configuration setters and execute).                                     *)
(*                                                                         *)
(* JavaScript strings are sequences of one-character strings, so that the  *)
(* parser walks them character by character as the code does.              *)
(***************************************************************************)
EXTENDS Integers, Sequences, FiniteSets, TLC

(***************************************************************************)
(* Character classes of the regular expressions of lib/agent.js.           *)
(***************************************************************************)
Lower ==
  {"a","b","c","d","e","f","g","h","i","j","k","l","m",
   "n","o","p","q","r","s","t","u","v","w","x","y","z"}

Upper ==
  {"A","B","C","D","E","F","G","H","I","J","K","L","M",
   "N","O","P","Q","R","S","T","U","V","W","X","Y","Z"}

Digit ==
  {"0","1","2","3","4","5","6","7","8","9"}

\* /[a-zA-Z0-9_]/ : the characters of an identifier
IdChar ==
  Lower \cup Upper \cup Digit \cup {"_"}

\* the complement of /[^a-zA-Z0-9_&|!()_]/ : the characters an expression may hold
ValidChar ==
  IdChar \cup {"&", "|", "!", "(", ")"}

\* /[a-zA-Z0-9_(!]/ : what may start an operand
OperandStart ==
  IdChar \cup {"(", "!"}

\* /[a-zA-Z0-9_)&|]/ : what may follow an identifier character
AfterIdChar ==
  IdChar \cup {")", "&", "|"}

\* /[a-zA-Z0-9)]/ : the expression terminators (the underscore is not in the class)
Terminator ==
  Lower \cup Upper \cup Digit \cup {")"}

(***************************************************************************)
(* The rule table of parseExpression.  A key is <<pos, prevprev, prev>>;   *)
(* the value is the set of characters the regular expression matches.      *)
(* /[]/ matches nothing.                                                   *)
(***************************************************************************)
RuleKeys ==
  { <<"1","?","?">>, <<"n","?","(">>, <<"n","?","#">>, <<"n","?","!">>,
    <<"n","?",")">>, <<"n","?","&">>, <<"n","&","&">>, <<"n","&","#">>,
    <<"n","&","(">>, <<"n","?","|">>, <<"n","|","|">>, <<"n","|","(">>,
    <<"n","|","#">>, <<"n","|","&">>, <<"n","&","|">> }

\* the rule table with ')' allowed as the first character
rulesClosingFirst ==
  [key \in RuleKeys |->
     CASE key = <<"1","?","?">> -> OperandStart \cup {")"}
       [] key \in {<<"n","?","(">>, <<"n","&","&">>, <<"n","&","(">>,
                   <<"n","|","|">>, <<"n","|","(">>} -> OperandStart
       [] key \in {<<"n","?","#">>, <<"n","&","#">>, <<"n","|","#">>} -> AfterIdChar
       [] key = <<"n","?","!">> -> IdChar \cup {"("}
       [] key = <<"n","?",")">> -> {"&", "|", ")"}
       [] key = <<"n","?","&">> -> {"&"}
       [] key = <<"n","?","|">> -> {"|"}
       [] OTHER -> {}]

rules ==
  [key \in RuleKeys |->
     CASE key = <<"1","?","?">> -> OperandStart
       [] key = <<"n","?","(">> -> OperandStart
       [] key = <<"n","?","#">> -> AfterIdChar
       [] key = <<"n","?","!">> -> IdChar \cup {"("}
       [] key = <<"n","?",")">> -> {"&", "|", ")"}
       [] key = <<"n","?","&">> -> {"&"}
       [] key = <<"n","&","&">> -> OperandStart
       [] key = <<"n","&","#">> -> AfterIdChar
       [] key = <<"n","&","(">> -> OperandStart
       [] key = <<"n","?","|">> -> {"|"}
       [] key = <<"n","|","|">> -> OperandStart
       [] key = <<"n","|","(">> -> OperandStart
       [] key = <<"n","|","#">> -> AfterIdChar
       [] key = <<"n","|","&">> -> {}
       [] key = <<"n","&","|">> -> {}]

(***************************************************************************)
(* parseExpression.  The result is a record: status "ok", an error code    *)
(* (the Error object the function returns) or "TypeError" (the exception   *)
(* thrown by rules[key].test when the table has no entry for the key).     *)
(* While the status is not "ok" the three properties of the agent are      *)
(* never assigned; they are shown as empty sequences.                      *)
(***************************************************************************)
ParseFail(code, pos) ==
  [status |-> code, errpos |-> pos, expression |-> <<>>,
   tokenizedExpression |-> <<>>, dependencies |-> <<>>]

\* arrayGetUniques returning the array as it is
arrayGetUniquesKeepAll(arr) ==
  arr

\* arrayGetUniques: the first occurrences, in order, the empty string dropped
RECURSIVE arrayGetUniques(_)
arrayGetUniques(arr) ==
  IF arr = <<>> THEN <<>>
  ELSE LET front == arrayGetUniques(SubSeq(arr, 1, Len(arr) - 1))
           last  == arr[Len(arr)]
       IN  IF (\E k \in 1..Len(front) : front[k] = last) \/ last = <<>>
           THEN front
           ELSE Append(front, last)

\* the state of the loop before the first character
ParseStart ==
  [prevprev |-> "?", prev |-> "?", rbrackets |-> 0, tmpparent |-> <<>>,
   tmpexpression |-> <<>>, parentList |-> <<>>,
   parsedTokenizedExpression |-> <<>>]

\* one pass of the for loop, on character i (1-based here, i - 1 in the code)
RECURSIVE ParseLoop(_, _, _, _)
ParseLoop(id, pe, st, i) ==
  IF i > Len(pe)
  THEN [status |-> "ok", errpos |-> 0, expression |-> pe,
        tokenizedExpression |-> st.parsedTokenizedExpression,
        dependencies |-> arrayGetUniques(st.parentList)]
  ELSE
  LET pos    == IF i = 1 THEN "1" ELSE "n"
      head   == pe[i]
      key    == <<pos, st.prevprev, st.prev>>
      isLast == (i = Len(pe))
      opens  == IF head = "(" THEN st.rbrackets + 1 ELSE st.rbrackets
      rb     == IF head = ")" THEN opens - 1 ELSE opens
      pp     == IF isLast THEN st.prevprev
                ELSE IF st.prev \in {"&", "|"} THEN st.prev ELSE "?"
      pv     == IF isLast THEN st.prev
                ELSE IF head \in IdChar THEN "#" ELSE head
      st1    == [st EXCEPT !.prevprev = pp, !.prev = pv, !.rbrackets = rb]
  IN
  IF key \notin RuleKeys THEN ParseFail("TypeError", i)
  ELSE IF head \notin rules[key] THEN ParseFail("InvalidCharacter", i)
  ELSE IF head = ")" /\ opens <= 0 THEN ParseFail("UnopenedParentheses", i)
  ELSE IF isLast /\ head \in Terminator /\ rb # 0
       THEN ParseFail("UnclosedParentheses", i)
  ELSE IF isLast /\ head \notin Terminator THEN ParseFail("InvalidTerminator", i)
  ELSE IF head \in IdChar
  THEN \* an identifier character: flush the operator run, extend the identifier
    LET toks == IF st.tmpexpression # <<>>
                THEN Append(st.parsedTokenizedExpression, st.tmpexpression)
                ELSE st.parsedTokenizedExpression
        st2  == [st1 EXCEPT !.parsedTokenizedExpression = toks,
                            !.tmpexpression = <<>>]
        tp   == Append(st.tmpparent, head)
    IN  IF Len(pe) = 1
        THEN IF id = <<head>> THEN ParseFail("SelfDependency", i)
             ELSE ParseLoop(id, pe,
                    [st2 EXCEPT !.parentList = Append(@, <<head>>),
                                !.parsedTokenizedExpression = Append(@, <<head>>)],
                    i + 1)
        ELSE IF isLast
        THEN IF id = tp THEN ParseFail("SelfDependency", i)
             ELSE ParseLoop(id, pe,
                    [st2 EXCEPT !.tmpparent = tp,
                                !.parentList = Append(@, tp),
                                !.parsedTokenizedExpression = Append(@, tp)],
                    i + 1)
        ELSE ParseLoop(id, pe, [st2 EXCEPT !.tmpparent = tp], i + 1)
  ELSE \* an operator or a parenthesis: flush the identifier, extend the run
    IF st.tmpparent # <<>> /\ id = st.tmpparent
    THEN ParseFail("SelfDependency", i)
    ELSE
    LET st2 == IF st.tmpparent # <<>>
               THEN [st1 EXCEPT !.parentList = Append(@, st.tmpparent),
                                !.parsedTokenizedExpression =
                                    Append(@, st.tmpparent),
                                !.tmpparent = <<>>]
               ELSE st1
        te  == Append(st.tmpexpression, head)
        st3 == [st2 EXCEPT !.tmpexpression = te]
    IN  IF isLast
        THEN ParseLoop(id, pe,
               [st3 EXCEPT !.parsedTokenizedExpression = Append(@, te)], i + 1)
        ELSE ParseLoop(id, pe, st3, i + 1)

\* expr.replace(/\040/g, '')
StripSpaces(expr) ==
  SelectSeq(expr, LAMBDA c : c # " ")

\* parseExpression comparing the identifiers with no id at all
parseExpressionNoSelf(id, expr) ==
  LET parsedExpression == StripSpaces(expr)
  IN  IF parsedExpression = <<>>
      THEN [status |-> "ok", errpos |-> 0, expression |-> <<>>,
            tokenizedExpression |-> <<>>, dependencies |-> <<>>]
      ELSE IF \E k \in 1..Len(parsedExpression) :
                parsedExpression[k] \notin ValidChar
      THEN ParseFail("InvalidExpression", 0)
      ELSE ParseLoop(<<>>, parsedExpression, ParseStart, 1)

parseExpression(id, expr) ==
  LET parsedExpression == StripSpaces(expr)
  IN  IF parsedExpression = <<>>   \* expr is undefined, empty or blank
      THEN [status |-> "ok", errpos |-> 0, expression |-> <<>>,
            tokenizedExpression |-> <<>>, dependencies |-> <<>>]
      ELSE IF \E k \in 1..Len(parsedExpression) :
                parsedExpression[k] \notin ValidChar
      THEN ParseFail("InvalidExpression", 0)
      ELSE ParseLoop(id, parsedExpression, ParseStart, 1)


(***************************************************************************)
(* JavaScript values.  The flags executed and waitingExec and the result   *)
(* are "undefined" until assigned; the other flags are only ever tested    *)
(* for truth, so an unassigned one is shown as FALSE.  An agent whose id   *)
(* was never assigned (validateId failed) has id <<>>, which no dependency *)
(* token equals: arrayGetUniques drops the empty string.                   *)
(***************************************************************************)
Truthy(v) ==
  v \notin {"false", "undefined", "null", "0"}

\* agent(agency, jn): the private properties right after construction
NewAgent ==
  [id |-> <<>>, expression |-> <<>>, tokenizedExpression |-> <<>>,
   dependencies |-> <<>>, func |-> FALSE, callback |-> FALSE,
   canExecute |-> FALSE, executed |-> "undefined", result |-> "undefined",
   waitingExec |-> "undefined", deffDepCheck |-> FALSE,
   haltsExecution |-> FALSE]

\* isIdInUse looking at the first agent only
isIdInUseFirstOnly(ags, id) ==
  ags # <<>> /\ ags[1].id = id

isIdInUse(ags, id) ==
  \E i \in 1..Len(ags) : ags[i].id = id

validateId(ags, id) ==
  IF id # <<>> /\ (\A k \in 1..Len(id) : id[k] \in IdChar)
  THEN IF isIdInUse(ags, id) THEN "DuplicateIdError" ELSE "ok"
  ELSE "ValidateIdError"

(***************************************************************************)
(* createAgent.  The result holds the registry after the call, the error   *)
(* logged ("ok" when none), the position its message names (0 when none)   *)
(* and whether the call threw: the TypeError of parseExpression leaves     *)
(* createAgent before agents.push.                                         *)
(***************************************************************************)
createAgent(ags, id, expr) ==
  LET validId == validateId(ags, id)
      parsed  == parseExpression(id, expr)
  IN  IF validId # "ok"
      THEN [agents |-> Append(ags, [NewAgent EXCEPT !.canExecute = FALSE]),
            error |-> validId, errpos |-> 0, threw |-> FALSE]
      ELSE IF parsed.status = "TypeError"
      THEN [agents |-> ags, error |-> "TypeError", errpos |-> parsed.errpos,
            threw |-> TRUE]
      ELSE IF parsed.status # "ok"
      THEN [agents |-> Append(ags, [NewAgent EXCEPT !.id = id,
                                                    !.canExecute = FALSE]),
            error |-> parsed.status, errpos |-> parsed.errpos, threw |-> FALSE]
      ELSE [agents |-> Append(ags,
               [NewAgent EXCEPT !.id = id,
                                !.expression = parsed.expression,
                                !.tokenizedExpression = parsed.tokenizedExpression,
                                !.dependencies = parsed.dependencies,
                                !.executed = "false",
                                !.waitingExec = "false",
                                !.deffDepCheck = FALSE,
                                !.haltsExecution = FALSE,
                                !.canExecute = TRUE]),
            error |-> "ok", errpos |-> 0, threw |-> FALSE]

(***************************************************************************)
(* The evaluator of index.js.                                              *)
(***************************************************************************)
\* hasAgentExecuted without the deffDepCheck branch
hasAgentExecutedNoDeferred(agentsList, dependency, currAgent) ==
  IF \E i \in 1..Len(agentsList) : agentsList[i].id = dependency
  THEN LET i == CHOOSE j \in 1..Len(agentsList) :
                  /\ agentsList[j].id = dependency
                  /\ \A k \in 1..(j - 1) : agentsList[k].id # dependency
       IN  agentsList[i].executed
  ELSE "Error"

\* hasAgentExecuted answering false, not the Error, for an id no agent has
hasAgentExecutedUnknownIsFalse(agentsList, dependency, currAgent) ==
  IF \E i \in 1..Len(agentsList) : agentsList[i].id = dependency
  THEN LET i == CHOOSE j \in 1..Len(agentsList) :
                  /\ agentsList[j].id = dependency
                  /\ \A k \in 1..(j - 1) : agentsList[k].id # dependency
       IN  IF ~currAgent.deffDepCheck
           THEN agentsList[i].executed
           ELSE IF Truthy(agentsList[i].executed) THEN "true"
                ELSE agentsList[i].waitingExec
  ELSE "false"

\* hasAgentExecuted taking the deffDepCheck branch whatever the flag
hasAgentExecutedAlwaysDeferred(agentsList, dependency, currAgent) ==
  IF \E i \in 1..Len(agentsList) : agentsList[i].id = dependency
  THEN LET i == CHOOSE j \in 1..Len(agentsList) :
                  /\ agentsList[j].id = dependency
                  /\ \A k \in 1..(j - 1) : agentsList[k].id # dependency
       IN  IF Truthy(agentsList[i].executed) THEN "true"
           ELSE agentsList[i].waitingExec
  ELSE "Error"

\* hasAgentExecuted: "Error" when no agent of the list has the id
hasAgentExecuted(agentsList, dependency, currAgent) ==
  IF \E i \in 1..Len(agentsList) : agentsList[i].id = dependency
  THEN LET i == CHOOSE j \in 1..Len(agentsList) :
                  /\ agentsList[j].id = dependency
                  /\ \A k \in 1..(j - 1) : agentsList[k].id # dependency
       IN  IF ~currAgent.deffDepCheck
           THEN agentsList[i].executed
           ELSE IF Truthy(agentsList[i].executed) THEN "true"
                ELSE agentsList[i].waitingExec
  ELSE "Error"

\* replaceByLogicalValue: a substituted boolean is the one-element token
\* <<"true">> or <<"false">>; undefined is <<>>, which join() writes as ''
replaceByLogicalValue(tokenArray, id, bool) ==
  [i \in 1..Len(tokenArray) |->
     IF tokenArray[i] = id
     THEN (IF bool = "undefined" THEN <<>> ELSE <<bool>>)
     ELSE tokenArray[i]]

\* ret.join(''): the text handed to eval, as a sequence of lexical elements
RECURSIVE join(_)
join(ret) ==
  IF ret = <<>> THEN <<>> ELSE Head(ret) \o join(Tail(ret))

(***************************************************************************)
(* eval on the joined text: the JavaScript grammar of ||, &&, ! and        *)
(* parentheses over the literals true and false.  A parse step returns the *)
(* value read and the position after it; ok = FALSE is an exception        *)
(* (SyntaxError, or TypeError for a call such as true(false)).  The rule   *)
(* table lets only the doubled forms && and || through, so the bitwise     *)
(* operators & and | are not part of the grammar here.                     *)
(***************************************************************************)
JsBad ==
  [ok |-> FALSE, val |-> FALSE, pos |-> 0]

\* F of the value of e: e is computed once, as a statement computes the
\* value it assigns to a local variable
Then(e, F(_)) ==
  CHOOSE v \in { F(x) : x \in {e} } : TRUE

IsAt(L, p, c) ==
  p <= Len(L) /\ L[p] = c

RECURSIVE JsOr(_, _)
RECURSIVE JsAnd(_, _)
RECURSIVE JsUnary(_, _)
RECURSIVE JsOrRest(_, _)
RECURSIVE JsAndRest(_, _)

\* LogicalORExpression := LogicalANDExpression ( '||' LogicalANDExpression )*
JsOr(L, p) ==
  Then(JsAnd(L, p), LAMBDA l : JsOrRest(L, l))

\* l is the left operand read so far, or JsBad
JsOrRest(L, l) ==
  IF ~l.ok THEN JsBad
  ELSE IF IsAt(L, l.pos, "|") /\ IsAt(L, l.pos + 1, "|")
  THEN Then(JsAnd(L, l.pos + 2),
            LAMBDA r : IF r.ok
                       THEN JsOrRest(L, [ok |-> TRUE, val |-> (l.val \/ r.val),
                                         pos |-> r.pos])
                       ELSE JsBad)
  ELSE l

\* LogicalANDExpression := UnaryExpression ( '&&' UnaryExpression )*
JsAnd(L, p) ==
  Then(JsUnary(L, p), LAMBDA l : JsAndRest(L, l))

\* JsAndRest reading all that follows && as its right operand, so that &&
\* no longer binds tighter than ||
JsAndRestGreedy(L, l) ==
  IF ~l.ok THEN JsBad
  ELSE IF IsAt(L, l.pos, "&") /\ IsAt(L, l.pos + 1, "&")
  THEN Then(JsOr(L, l.pos + 2),
            LAMBDA r : IF r.ok
                       THEN [ok |-> TRUE, val |-> (l.val /\ r.val), pos |-> r.pos]
                       ELSE JsBad)
  ELSE l

\* l is the left operand read so far, or JsBad
JsAndRest(L, l) ==
  IF ~l.ok THEN JsBad
  ELSE IF IsAt(L, l.pos, "&") /\ IsAt(L, l.pos + 1, "&")
  THEN Then(JsUnary(L, l.pos + 2),
            LAMBDA r : IF r.ok
                       THEN JsAndRest(L, [ok |-> TRUE, val |-> (l.val /\ r.val),
                                          pos |-> r.pos])
                       ELSE JsBad)
  ELSE l

\* UnaryExpression := '!' UnaryExpression | 'true' | 'false' | '(' Expression ')'
JsUnary(L, p) ==
  IF IsAt(L, p, "!")
  THEN Then(JsUnary(L, p + 1),
            LAMBDA r : IF r.ok THEN [r EXCEPT !.val = ~r.val] ELSE JsBad)
  ELSE IF IsAt(L, p, "true") THEN [ok |-> TRUE, val |-> TRUE, pos |-> p + 1]
  ELSE IF IsAt(L, p, "false") THEN [ok |-> TRUE, val |-> FALSE, pos |-> p + 1]
  ELSE IF IsAt(L, p, "(")
  THEN Then(JsOr(L, p + 1),
            LAMBDA r : IF r.ok /\ IsAt(L, r.pos, ")")
                       THEN [r EXCEPT !.pos = r.pos + 1]
                       ELSE JsBad)
  ELSE JsBad

\* eval(text): "true", "false", "undefined" for the empty text, "throws"
JsEval(L) ==
  IF L = <<>> THEN "undefined"
  ELSE Then(JsOr(L, 1),
            LAMBDA r : IF r.ok /\ r.pos = Len(L) + 1
                       THEN (IF r.val THEN "true" ELSE "false")
                       ELSE "throws")

\* the for loop of evaluateLogicalExpression over the dependencies from i on
RECURSIVE SubstituteFrom(_, _, _, _)
SubstituteFrom(ags, ag, ret, i) ==
  IF i > Len(ag.dependencies) THEN [error |-> FALSE, ret |-> ret]
  ELSE Then(hasAgentExecuted(ags, ag.dependencies[i], ag),
            LAMBDA agentExecuted :
              IF agentExecuted = "Error"
              THEN [error |-> TRUE, ret |-> ret]
              ELSE Then(replaceByLogicalValue(ret, ag.dependencies[i], agentExecuted),
                        LAMBDA replaced : SubstituteFrom(ags, ag, replaced, i + 1)))

\* evaluateLogicalExpression: "Error", or what eval returns or throws
evaluateLogicalExpression(ags, ag) ==
  Then(SubstituteFrom(ags, ag, ag.tokenizedExpression, 1),
       LAMBDA s : IF s.error THEN "Error"
                  ELSE Then(join(s.ret), LAMBDA text : JsEval(text)))


(***************************************************************************)
(* The scan of runAgents and execute.                                      *)
(***************************************************************************)
\* execute() setting waitingExec and no timer
executeWithoutTimer(ag) ==
  IF ag.func
  THEN [agent |-> [ag EXCEPT !.waitingExec = "true"], timer |-> FALSE]
  ELSE [agent |-> ag, timer |-> FALSE]

\* execute(): with a function set the agent waits for its timer; without
\* one the call only logs.  The result says whether a timer was set.
execute(ag) ==
  IF ag.func
  THEN [agent |-> [ag EXCEPT !.waitingExec = "true"], timer |-> TRUE]
  ELSE [agent |-> ag, timer |-> FALSE]

\* CanStart without the test of waitingExec
CanStartIgnoringWaiting(ag) ==
  ~Truthy(ag.executed) /\ ag.canExecute

\* CanStart without the test of canExecute
CanStartIgnoringEnabled(ag) ==
  ~Truthy(ag.executed) /\ ~Truthy(ag.waitingExec)

\* the condition of line 172: not executed, not waiting, allowed to execute
CanStart(ag) ==
  ~Truthy(ag.executed) /\ ~Truthy(ag.waitingExec) /\ ag.canExecute

\* ScanDecision executing whatever the value of the expression
ScanDecisionAnyValue(ags, i) ==
  IF ~CanStart(ags[i]) THEN "skip"
  ELSE IF ags[i].expression = <<>> THEN "execute"
  ELSE Then(evaluateLogicalExpression(ags, ags[i]),
            LAMBDA checkDependency :
              IF checkDependency = "Error" THEN "log"
              ELSE IF checkDependency = "throws" THEN "throw"
              ELSE "execute")

\* what the scan decides for agent i: "execute", "skip", "log" (the
\* InvalidDependency error is logged) or "throw" (eval threw)
ScanDecision(ags, i) ==
  IF ~CanStart(ags[i]) THEN "skip"
  ELSE IF ags[i].expression = <<>> THEN "execute"
  ELSE Then(evaluateLogicalExpression(ags, ags[i]),
            LAMBDA checkDependency :
              IF checkDependency = "Error" THEN "log"
              ELSE IF checkDependency = "throws" THEN "throw"
              ELSE IF Truthy(checkDependency) THEN "execute"
              ELSE "skip")

\* ScanFrom putting each agent it starts ahead of those started before it
RECURSIVE ScanFromNewestFirst(_, _, _, _)
ScanFromNewestFirst(ags, started, logged, i) ==
  IF i > Len(ags)
  THEN [agents |-> ags, started |-> started, logged |-> logged, threw |-> FALSE]
  ELSE Then(ScanDecision(ags, i),
            LAMBDA d :
              CASE d = "throw" ->
                     [agents |-> ags, started |-> started, logged |-> logged,
                      threw |-> TRUE]
                [] d = "execute" ->
                     Then([ag |-> [ags EXCEPT ![i] = execute(ags[i]).agent],
                           st |-> IF execute(ags[i]).timer
                                  THEN <<i>> \o started ELSE started],
                          LAMBDA n : ScanFromNewestFirst(n.ag, n.st, logged, i + 1))
                [] d = "log" ->
                     Then(Append(logged, i),
                          LAMBDA lg : ScanFromNewestFirst(ags, started, lg, i + 1))
                [] OTHER -> ScanFromNewestFirst(ags, started, logged, i + 1))

\* the for loop of runAgents from agent i on; started lists the agents whose
\* timers were set, in order; logged the agents with an InvalidDependency event
RECURSIVE ScanFrom(_, _, _, _)
ScanFrom(ags, started, logged, i) ==
  IF i > Len(ags)
  THEN [agents |-> ags, started |-> started, logged |-> logged, threw |-> FALSE]
  ELSE Then(ScanDecision(ags, i),
            LAMBDA d :
              CASE d = "throw" ->
                     [agents |-> ags, started |-> started, logged |-> logged,
                      threw |-> TRUE]
                [] d = "execute" ->
                     Then([ag |-> [ags EXCEPT ![i] = execute(ags[i]).agent],
                           st |-> IF execute(ags[i]).timer
                                  THEN Append(started, i) ELSE started],
                          LAMBDA n : ScanFrom(n.ag, n.st, logged, i + 1))
                [] d = "log" ->
                     Then(Append(logged, i),
                          LAMBDA lg : ScanFrom(ags, started, lg, i + 1))
                [] OTHER -> ScanFrom(ags, started, logged, i + 1))

\* hasAgencyCompleted with ret assigned on every pass: the last agent decides
hasAgencyCompletedLastOnly(ags) ==
  ags = <<>> \/ ~Truthy(ags[Len(ags)].waitingExec)

hasAgencyCompleted(ags) ==
  \A i \in 1..Len(ags) : ~Truthy(ags[i].waitingExec)

\* runAgents(): the scan, then report() when no agent waits.  reported counts
\* the calls of report() (0 or 1); nothing after the scan runs when eval threw.
runAgents(ags) ==
  Then(ScanFrom(ags, <<>>, <<>>, 1),
       LAMBDA s :
         [agents |-> s.agents, started |-> s.started, logged |-> s.logged,
          threw |-> s.threw,
          reported |-> IF ~s.threw /\ hasAgencyCompleted(s.agents) THEN 1 ELSE 0])

\* setResult: a falsy value is recorded as null
setResult(res) ==
  IF Truthy(res) THEN res ELSE "null"

\* getAgentValue: the result of the first agent with the id; the function
\* ends without a return statement when there is none
getAgentValue(ags, id) ==
  IF \E i \in 1..Len(ags) : ags[i].id = id
  THEN ags[CHOOSE i \in 1..Len(ags) :
             /\ ags[i].id = id
             /\ \A k \in 1..(i - 1) : ags[k].id # id].result
  ELSE "undefined"

\* getValueOfAgent(dep), called by the function of agent ag
getValueOfAgent(ags, ag, dep) ==
  IF \E i \in 1..Len(ag.dependencies) : ag.dependencies[i] = dep
  THEN getAgentValue(ags, dep)
  ELSE "null"


(***************************************************************************)
(* The callback handed to setTimeout by execute(), up to setWaitingExec.   *)
(* work is what the agent's function does when called; cb1 and cb2 are     *)
(* what the callback does on its first and second call.  escaped: an       *)
(* exception left the catch block, so nothing after it ran.  cbArgs lists   *)
(* the arguments of each call of the callback, cbSaw the agent as each     *)
(* call found it.                                                          *)
(***************************************************************************)
\* callback(err) handing null as the second argument
callbackArgsOnErrorWithNull(err) ==
  <<err, "null">>

\* callback(null, res), line 405
callbackArgsOnSuccess(res) ==
  <<"null", res>>

\* callback(err), line 413: the second parameter is not sent
callbackArgsOnError(err) ==
  <<err, "undefined">>

\* Complete without setExecuted(true) and setWaitingExec(false)
CompleteStillWaiting(ag, work, cb1, cb2) ==
  [agent |-> [ag EXCEPT !.result = setResult(work.value)],
   errorOnExecution |-> (work.kind = "throw"), escaped |-> FALSE,
   cbCalls |-> 0, cbArgs |-> <<>>, cbSaw |-> <<>>]

Complete(ag, work, cb1, cb2) ==
  LET done(a) == [a EXCEPT !.executed = "true", !.waitingExec = "false"]
  IN  IF work.kind = "return"
      THEN LET a1 == [ag EXCEPT !.result = setResult(work.value)]
           IN  IF ag.callback /\ cb1 = "throws"
               THEN \* callback(null, res) threw: the catch block runs
                    LET a2 == [a1 EXCEPT !.result = setResult("CallbackError")]
                        twice == << callbackArgsOnSuccess(work.value),
                                    callbackArgsOnError("CallbackError") >>
                    IN  IF cb2 = "throws"
                        THEN [agent |-> a2, errorOnExecution |-> TRUE,
                              escaped |-> TRUE, cbCalls |-> 2, cbArgs |-> twice,
                              cbSaw |-> <<a1, a2>>]
                        ELSE [agent |-> done(a2), errorOnExecution |-> TRUE,
                              escaped |-> FALSE, cbCalls |-> 2, cbArgs |-> twice,
                              cbSaw |-> <<a1, a2>>]
               ELSE [agent |-> done(a1), errorOnExecution |-> FALSE,
                     escaped |-> FALSE,
                     cbCalls |-> IF ag.callback THEN 1 ELSE 0,
                     cbArgs |-> IF ag.callback
                                THEN << callbackArgsOnSuccess(work.value) >>
                                ELSE <<>>,
                     cbSaw |-> IF ag.callback THEN <<a1>> ELSE <<>>]
      ELSE LET a1 == [ag EXCEPT !.result = setResult(work.value)]
               once == IF ag.callback
                       THEN << callbackArgsOnError(work.value) >>
                       ELSE <<>>
           IN  IF ag.callback /\ cb1 = "throws"
               THEN [agent |-> a1, errorOnExecution |-> TRUE,
                     escaped |-> TRUE, cbCalls |-> 1, cbArgs |-> once,
                     cbSaw |-> <<a1>>]
               ELSE [agent |-> done(a1), errorOnExecution |-> TRUE,
                     escaped |-> FALSE,
                     cbCalls |-> IF ag.callback THEN 1 ELSE 0,
                     cbArgs |-> once,
                     cbSaw |-> IF ag.callback THEN <<a1>> ELSE <<>>]

\* HaltsAgency with the test of the error inverted
HaltsAgencyOnSuccess(ag, errorOnExecution) ==
  ag.haltsExecution /\ ~errorOnExecution

\* the condition of line 418: the failed agent stops the agency
HaltsAgency(ag, errorOnExecution) ==
  ag.haltsExecution /\ errorOnExecution

(***************************************************************************)
(* The inputs: the identifiers and expressions of the README's usage       *)
(* cases, and the programs (sequences of createAgent calls) built of them. *)
(***************************************************************************)
id1 ==
  <<"i", "d", "1">>

id2 ==
  <<"i", "d", "2">>

id3 ==
  <<"i", "d", "3">>

id4 ==
  <<"i", "d", "4">>

AndOp ==
  <<"&", "&">>

OrOp ==
  <<"|", "|">>

Call(id, expr) ==
  [id |-> id, expr |-> expr]

\* every order of the calls of a set
Orders(calls) ==
  { sq \in [1..Cardinality(calls) -> calls] :
      \A i, j \in 1..Cardinality(calls) : i # j => sq[i] # sq[j] }

\* usage case #2: id3 after id1 and id2, in every creation order
CallsA ==
  { Call(id1, <<>>), Call(id2, <<>>), Call(id3, id1 \o AndOp \o id2) }

\* usage case #3: the chain id1 <- id2 <- id3 <- id4
ScriptB ==
  << Call(id1, <<>>), Call(id2, id1), Call(id3, id2), Call(id4, id3) >>

\* usage case #5: id2 runs only if id1 has not executed yet
ScriptC ==
  << Call(id1, <<>>), Call(id2, <<"!">> \o id1) >>

\* the programs of the agency's main specification
Scripts ==
  Orders(CallsA) \cup {ScriptC}

\* what a function set by setFunction does when the timer calls it
WorkOutcomes ==
  { [kind |-> "return", value |-> "10"],
    [kind |-> "throw", value |-> "Error"] }

\* what a callback does when called
CallbackOutcomes ==
  {"returns", "throws"}

\* a callback that was never set is never called: one choice is enough
CallbackChoices(ag) ==
  IF ag.callback THEN CallbackOutcomes ELSE {"returns"}

\* the number of runAgents() calls the program makes
MaxRunCalls ==
  2

(***************************************************************************)
(* The state.  agents is the registry; timers the callbacks handed to      *)
(* setTimeout and not yet called, by agent index, in the order they were   *)
(* set; crashed names the call an exception escaped from ("none" while     *)
(* there was none), which ends the process.  script is the program's       *)
(* createAgent calls.  The others record the history the properties speak  *)
(* of: per agent the number of dispatches (waitingExec set by execute),    *)
(* of calls of its function and the scan that dispatched it; the number of *)
(* report() calls, of scans, of runAgents() calls by the program, and      *)
(* whether a failed agent with haltsExecution has stopped the agency.      *)
(***************************************************************************)
VARIABLES agents, timers, crashed, script, runCalls, hist, reports, scans, halted,
          evalCase, evalResult

vars ==
  <<agents, timers, crashed, script, runCalls, hist, reports, scans, halted,
    evalCase, evalResult>>

\* the variables of the evaluator's own specification (see SpecEval)
evalVars ==
  <<evalCase, evalResult>>

NewHist ==
  [dispatched |-> 0, invoked |-> 0, scan |-> 0, cbCalls |-> 0, events |-> 0,
   returned |-> "none", failed |-> FALSE, cbArgs |-> <<>>, cbSaw |-> <<>>,
   got |-> <<>>, error |-> "ok", errpos |-> 0]

\* agency(): an empty registry, before the first call of a program of scripts
StartWith(scripts) ==
  /\ agents = <<>>
  /\ timers = <<>>
  /\ crashed = "none"
  /\ script \in scripts
  /\ runCalls = 0
  /\ hist = <<>>
  /\ reports = 0
  /\ scans = 0
  /\ halted = FALSE
  /\ evalCase = "none"
  /\ evalResult = "none"

Init ==
  StartWith(Scripts)

\* agency.createAgent(id, expr): the next call of the program
CreateAgent ==
  /\ crashed = "none"
  /\ runCalls = 0
  /\ Len(agents) < Len(script)
  /\ LET c == script[Len(agents) + 1]
         r == createAgent(agents, c.id, c.expr)
     IN  /\ agents' = r.agents
         /\ crashed' = IF r.threw THEN "createAgent" ELSE "none"
         /\ hist' = IF r.threw THEN hist
                    ELSE Append(hist, [NewHist EXCEPT !.error = r.error,
                                                      !.errpos = r.errpos])
  /\ UNCHANGED <<timers, script, runCalls, reports, scans, halted, evalVars>>

\* handle.setFunction(f): f is a function or some other value
SetFunction(i, f) ==
  /\ crashed = "none"
  /\ runCalls = 0
  /\ agents[i].canExecute
  /\ agents' = IF f = "function"
               THEN [agents EXCEPT ![i].func = TRUE]
               ELSE [agents EXCEPT ![i].canExecute = FALSE]
  /\ UNCHANGED <<timers, crashed, script, runCalls, hist, reports, scans, halted,
                 evalVars>>

\* handle.setCallback(cb)
SetCallback(i, cb) ==
  /\ crashed = "none"
  /\ runCalls = 0
  /\ agents[i].canExecute
  /\ agents' = IF cb = "function"
               THEN [agents EXCEPT ![i].callback = TRUE]
               ELSE [agents EXCEPT ![i].canExecute = FALSE]
  /\ UNCHANGED <<timers, crashed, script, runCalls, hist, reports, scans, halted,
                 evalVars>>

\* handle.setHaltExecution(flag)
SetHaltExecution(i, flag) ==
  /\ crashed = "none"
  /\ runCalls = 0
  /\ agents' = [agents EXCEPT ![i].haltsExecution = flag]
  /\ UNCHANGED <<timers, crashed, script, runCalls, hist, reports, scans, halted,
                 evalVars>>

\* handle.setDeffDepCheck(flag)
SetDeffDepCheck(i, flag) ==
  /\ crashed = "none"
  /\ runCalls = 0
  /\ agents' = [agents EXCEPT ![i].deffDepCheck = flag]
  /\ UNCHANGED <<timers, crashed, script, runCalls, hist, reports, scans, halted,
                 evalVars>>

\* the history after a scan that started the agents of started
Dispatched(h, started, scanNo) ==
  [i \in 1..Len(h) |->
     IF \E k \in 1..Len(started) : started[k] = i
     THEN [h[i] EXCEPT !.dispatched = @ + 1, !.scan = scanNo]
     ELSE h[i]]

\* the history after a scan that logged an InvalidDependency event for the
\* agents of logged
Logged(h, logged) ==
  [i \in 1..Len(h) |->
     [h[i] EXCEPT !.events =
        @ + Cardinality({k \in 1..Len(logged) : logged[k] = i})]]

\* the ids a function asks getValueOfAgent for, and what it gets for each
AskIds ==
  <<id1, id2, id3>>

Asked(ags, ag) ==
  [k \in 1..Len(AskIds) |-> getValueOfAgent(ags, ag, AskIds[k])]

\* agency.runAgents() called by the program
RunAgents ==
  /\ crashed = "none"
  /\ runCalls < MaxRunCalls
  /\ \E r \in {runAgents(agents)} :
         /\ agents' = r.agents
         /\ timers' = timers \o r.started
         /\ crashed' = IF r.threw THEN "runAgents" ELSE "none"
         /\ hist' = Logged(Dispatched(hist, r.started, scans + 1), r.logged)
         /\ reports' = reports + r.reported
  /\ runCalls' = runCalls + 1
  /\ scans' = scans + 1
  /\ UNCHANGED <<script, halted, evalVars>>

\* the k-th pending timer fires: the callback of execute() runs to its end
TimerFire(k, work, cb1, cb2) ==
  /\ crashed = "none"
  /\ k \in 1..Len(timers)
  /\ \E i \in {timers[k]} :
     \E c \in {Complete(agents[i], work, cb1, cb2)} :
     \E ags1 \in {[agents EXCEPT ![i] = c.agent]},
        rest \in {SubSeq(timers, 1, k - 1) \o SubSeq(timers, k + 1, Len(timers))},
        h1 \in {[hist EXCEPT ![i].invoked = @ + 1, ![i].cbCalls = @ + c.cbCalls,
                              ![i].returned = work.value,
                              ![i].failed = (work.kind = "throw"),
                              ![i].cbArgs = @ \o c.cbArgs,
                              ![i].cbSaw = @ \o c.cbSaw,
                              ![i].got = Asked(agents, agents[i])]} :
         IF c.escaped
         THEN /\ agents' = ags1
              /\ timers' = rest
              /\ crashed' = "timer"
              /\ hist' = h1
              /\ UNCHANGED <<reports, scans, halted>>
         ELSE IF HaltsAgency(ags1[i], c.errorOnExecution)
         THEN \* agency.report(), and no scan
              /\ agents' = ags1
              /\ timers' = rest
              /\ hist' = h1
              /\ reports' = reports + 1
              /\ halted' = TRUE
              /\ UNCHANGED <<crashed, scans>>
         ELSE \* agency.runAgents()
              \E r \in {runAgents(ags1)} :
                  /\ agents' = r.agents
                  /\ timers' = rest \o r.started
                  /\ crashed' = IF r.threw THEN "timer" ELSE "none"
                  /\ hist' = Logged(Dispatched(h1, r.started, scans + 1), r.logged)
                  /\ reports' = reports + r.reported
                  /\ scans' = scans + 1
                  /\ UNCHANGED halted
  /\ UNCHANGED <<script, runCalls, evalVars>>

Next ==
  \/ CreateAgent
  \/ \E i \in 1..Len(agents), f \in {"function", "other"} : SetFunction(i, f)
  \/ \E i \in 1..Len(agents), flag \in BOOLEAN : SetHaltExecution(i, flag)
  \/ \E i \in 1..Len(agents), flag \in BOOLEAN : SetDeffDepCheck(i, flag)
  \/ RunAgents
  \/ \E k \in 1..Len(timers), work \in WorkOutcomes :
       \E cb1 \in CallbackChoices(agents[timers[k]]),
          cb2 \in CallbackChoices(agents[timers[k]]) :
            TimerFire(k, work, cb1, cb2)

Spec ==
  Init /\ [][Next]_vars


(***************************************************************************)
(* The agency on the chain of usage case #3.                               *)
(***************************************************************************)
InitChain ==
  StartWith({ScriptB})

SpecChain ==
  InitChain /\ [][Next]_vars

(***************************************************************************)
(* The agency on registries with creation failures: a dependency that was  *)
(* never created, a dependency whose expression failed validation, a       *)
(* duplicated id and an invalid id.  Callbacks are set here.               *)
(***************************************************************************)
idX ==
  <<"i", "d", "X">>

ID1 ==
  <<"I", "D", "1">>

\* id2 waits for idX, which is never created
ScriptUnknown ==
  << Call(id1, <<>>), Call(id2, idX) >>

\* id2 waits for id1 or idX
ScriptUnknownOr ==
  << Call(id1, <<>>), Call(id2, id1 \o OrOp \o idX) >>

\* id1 fails the validation of its expression ("id3&"); id2 waits for id1
ScriptDisabled ==
  << Call(id1, id3 \o <<"&">>), Call(id2, id1) >>

\* id1 fails the validation of its expression; id3 waits for id2 and id1
ScriptDisabledAnd ==
  << Call(id1, id3 \o <<"&">>), Call(id2, <<>>), Call(id3, id2 \o AndOp \o id1) >>

\* id1 is created twice, then ID1
ScriptDuplicate ==
  << Call(id1, <<>>), Call(id1, <<>>), Call(ID1, <<>>) >>

\* an id with a character outside the class, then a duplicate of id2
ScriptInvalidId ==
  << Call(<<"i", "d", "-">>, <<>>), Call(id2, <<>>), Call(id2, id2) >>

ScriptsErr ==
  { ScriptUnknown, ScriptUnknownOr, ScriptDisabled, ScriptDisabledAnd,
    ScriptDuplicate, ScriptInvalidId }

InitErr ==
  StartWith(ScriptsErr)

NextErr ==
  \/ CreateAgent
  \/ \E i \in 1..Len(agents), f \in {"function", "other"} : SetFunction(i, f)
  \/ \E i \in 1..Len(agents), cb \in {"function", "other"} : SetCallback(i, cb)
  \/ \E i \in 1..Len(agents), flag \in BOOLEAN : SetDeffDepCheck(i, flag)
  \/ RunAgents
  \/ \E k \in 1..Len(timers), work \in WorkOutcomes :
       \E cb1 \in CallbackChoices(agents[timers[k]]),
          cb2 \in CallbackChoices(agents[timers[k]]) :
            TimerFire(k, work, cb1, cb2)

SpecErr ==
  InitErr /\ [][NextErr]_vars

(***************************************************************************)
(* The agency on usage case #4: id2 waits for id1 and asks for its value.  *)
(* The functions return a number, one of the falsy values or nothing, or   *)
(* throw; callbacks are set.                                               *)
(***************************************************************************)
ScriptValue ==
  << Call(id1, <<>>), Call(id2, id1) >>

ValueOutcomes ==
  { [kind |-> "return", value |-> "10"],
    [kind |-> "return", value |-> "0"],
    [kind |-> "return", value |-> "false"],
    [kind |-> "return", value |-> "undefined"],
    [kind |-> "throw", value |-> "Error"] }

InitValue ==
  StartWith({ScriptValue})

NextValue ==
  \/ CreateAgent
  \/ \E i \in 1..Len(agents), f \in {"function", "other"} : SetFunction(i, f)
  \/ \E i \in 1..Len(agents), cb \in {"function", "other"} : SetCallback(i, cb)
  \/ RunAgents
  \/ \E k \in 1..Len(timers), work \in ValueOutcomes :
       \E cb1 \in CallbackChoices(agents[timers[k]]),
          cb2 \in CallbackChoices(agents[timers[k]]) :
            TimerFire(k, work, cb1, cb2)

SpecValue ==
  InitValue /\ [][NextValue]_vars

(***************************************************************************)
(* The agency on usage case #4 with callbacks that return or throw, on     *)
(* agents that may have haltsExecution set.                                *)
(***************************************************************************)
InitHandler ==
  StartWith({ScriptValue})

NextHandler ==
  \/ CreateAgent
  \/ \E i \in 1..Len(agents), f \in {"function", "other"} : SetFunction(i, f)
  \/ \E i \in 1..Len(agents), cb \in {"function", "other"} : SetCallback(i, cb)
  \/ \E i \in 1..Len(agents), flag \in BOOLEAN : SetHaltExecution(i, flag)
  \/ RunAgents
  \/ \E k \in 1..Len(timers), work \in WorkOutcomes :
       \E cb1 \in CallbackChoices(agents[timers[k]]),
          cb2 \in CallbackChoices(agents[timers[k]]) :
            TimerFire(k, work, cb1, cb2)

SpecHandler ==
  InitHandler /\ [][NextHandler]_vars

(***************************************************************************)
(* The agency with the timers called in the order they were set: every     *)
(* timer is set with the delay 0, and the timers of one delay are called   *)
(* first set, first called.  The registries are usage case #2 in every     *)
(* creation order and three agents without dependencies.                   *)
(***************************************************************************)
ScriptFree ==
  << Call(id1, <<>>), Call(id2, <<>>), Call(id3, <<>>) >>

InitOrder ==
  StartWith(Orders(CallsA) \cup {ScriptFree})

NextOrder ==
  \/ CreateAgent
  \/ \E i \in 1..Len(agents), f \in {"function", "other"} : SetFunction(i, f)
  \/ \E i \in 1..Len(agents), flag \in BOOLEAN : SetDeffDepCheck(i, flag)
  \/ RunAgents
  \/ \E work \in WorkOutcomes : TimerFire(1, work, "returns", "returns")

SpecOrder ==
  InitOrder /\ [][NextOrder]_vars

(***************************************************************************)
(* The agency with the event loop at work: a callback handed to setTimeout *)
(* is called in the end (weak fairness of the timers), the function it     *)
(* calls returns or throws, and no callback is set.  The registries are    *)
(* usage case #2 in every creation order.                                  *)
(***************************************************************************)
\* some pending timer fires, for an agent without a callback
Fire ==
  \E k \in 1..Len(timers), work \in WorkOutcomes :
    TimerFire(k, work, "returns", "returns")

InitLive ==
  StartWith(Orders(CallsA))

NextLive ==
  \/ CreateAgent
  \/ \E i \in 1..Len(agents), f \in {"function", "other"} : SetFunction(i, f)
  \/ \E i \in 1..Len(agents), flag \in BOOLEAN : SetHaltExecution(i, flag)
  \/ RunAgents
  \/ Fire

SpecLive ==
  InitLive /\ [][NextLive]_vars /\ WF_vars(Fire)

(***************************************************************************)
(* The agency, with the event loop at work, on registries in which some    *)
(* agent can never be dispatched: two agents that wait for each other, a   *)
(* dependency that was never created, a dependency that is disabled, and   *)
(* (when setFunction is not called) agents without a function.             *)
(***************************************************************************)
\* id1 waits for id2 and id2 for id1; id3 has no dependencies
ScriptCycle ==
  << Call(id1, id2), Call(id2, id1), Call(id3, <<>>) >>

ScriptsStuck ==
  { ScriptCycle, ScriptUnknown, ScriptDisabled, ScriptDisabledAnd }

InitStuck ==
  StartWith(ScriptsStuck)

NextStuck ==
  \/ CreateAgent
  \/ \E i \in 1..Len(agents), f \in {"function", "other"} : SetFunction(i, f)
  \/ \E i \in 1..Len(agents), flag \in BOOLEAN : SetHaltExecution(i, flag)
  \/ \E i \in 1..Len(agents), flag \in BOOLEAN : SetDeffDepCheck(i, flag)
  \/ RunAgents
  \/ Fire

SpecStuck ==
  InitStuck /\ [][NextStuck]_vars /\ WF_vars(Fire)

(***************************************************************************)
(* The agency with the handle of an agent used after runAgents(): the four *)
(* methods createAgent returns stay callable for the life of the agent.    *)
(* The registry is usage case #4.                                          *)
(***************************************************************************)
\* handle.setFunction(f) after the run began
LateSetFunction(i, f) ==
  /\ crashed = "none"
  /\ runCalls >= 1
  /\ agents[i].canExecute
  /\ agents' = IF f = "function"
               THEN [agents EXCEPT ![i].func = TRUE]
               ELSE [agents EXCEPT ![i].canExecute = FALSE]
  /\ UNCHANGED <<timers, crashed, script, runCalls, hist, reports, scans, halted,
                 evalVars>>

\* handle.setCallback(cb) after the run began
LateSetCallback(i, cb) ==
  /\ crashed = "none"
  /\ runCalls >= 1
  /\ agents[i].canExecute
  /\ agents' = IF cb = "function"
               THEN [agents EXCEPT ![i].callback = TRUE]
               ELSE [agents EXCEPT ![i].canExecute = FALSE]
  /\ UNCHANGED <<timers, crashed, script, runCalls, hist, reports, scans, halted,
                 evalVars>>

\* handle.setHaltExecution(flag) after the run began
LateSetHaltExecution(i, flag) ==
  /\ crashed = "none"
  /\ runCalls >= 1
  /\ agents' = [agents EXCEPT ![i].haltsExecution = flag]
  /\ UNCHANGED <<timers, crashed, script, runCalls, hist, reports, scans, halted,
                 evalVars>>

\* handle.setDeffDepCheck(flag) after the run began
LateSetDeffDepCheck(i, flag) ==
  /\ crashed = "none"
  /\ runCalls >= 1
  /\ agents' = [agents EXCEPT ![i].deffDepCheck = flag]
  /\ UNCHANGED <<timers, crashed, script, runCalls, hist, reports, scans, halted,
                 evalVars>>

InitLate ==
  StartWith({ScriptValue})

NextLate ==
  \/ CreateAgent
  \/ \E i \in 1..Len(agents), f \in {"function", "other"} : SetFunction(i, f)
  \/ RunAgents
  \/ \E i \in 1..Len(agents), f \in {"function", "other"} : LateSetFunction(i, f)
  \/ \E i \in 1..Len(agents), cb \in {"function", "other"} : LateSetCallback(i, cb)
  \/ \E i \in 1..Len(agents), flag \in BOOLEAN : LateSetHaltExecution(i, flag)
  \/ \E i \in 1..Len(agents), flag \in BOOLEAN : LateSetDeffDepCheck(i, flag)
  \/ \E k \in 1..Len(timers), work \in WorkOutcomes :
       \E cb1 \in CallbackChoices(agents[timers[k]]),
          cb2 \in CallbackChoices(agents[timers[k]]) :
            TimerFire(k, work, cb1, cb2)

SpecLate ==
  InitLate /\ [][NextLate]_vars

(***************************************************************************)
(* The parser on its own: one createAgent call on an empty registry, for   *)
(* every expression of up to MaxExprLen characters of ParseAlphabet and    *)
(* the examples of the README and of the specification.                    *)
(***************************************************************************)
MaxExprLen ==
  4

ParseAlphabet ==
  {"a", "b", "_", "&", "|", "!", "(", ")", " "}

ea ==
  <<"a">>

eb ==
  <<"b">>

ec ==
  <<"c">>

\* "!a", "(!a)", "a&&!b", "a||!b", "a||(b&&!c)"
NegationExamples ==
  { <<"!">> \o ea,
    <<"(", "!">> \o ea \o <<")">>,
    ea \o AndOp \o <<"!">> \o eb,
    ea \o OrOp \o <<"!">> \o eb,
    ea \o OrOp \o <<"(">> \o eb \o AndOp \o <<"!">> \o ec \o <<")">> }

\* "a&&b", "a&b", "(a", ")a", "a&&", "x", "id1&&id2", "(a||b)&&c"
ParseExamples ==
  { ea \o AndOp \o eb,
    ea \o <<"&">> \o eb,
    <<"(">> \o ea,
    <<")">> \o ea,
    ea \o AndOp,
    <<"x">>,
    id1 \o AndOp \o id2,
    <<"(">> \o ea \o OrOp \o eb \o <<")">> \o AndOp \o ec }

ParseExprs ==
  UNION { [1..n -> ParseAlphabet] : n \in 0..MaxExprLen }
    \cup NegationExamples \cup ParseExamples

\* the id of the new agent: two valid ones and the empty string
ParseIds ==
  { <<"x">>, ea, <<>> }

ParseScripts ==
  { << Call(id, e) >> : id \in ParseIds, e \in ParseExprs }

InitParse ==
  StartWith(ParseScripts)

NextParse ==
  CreateAgent

SpecParse ==
  InitParse /\ [][NextParse]_vars

(***************************************************************************)
(* The evaluator on its own: an agent with the tokens of a formula over a, *)
(* b and c, after three agents a, b and c that are Pending, Dispatched or  *)
(* Completed; the step is the scan's decision for that agent.              *)
(***************************************************************************)
EvalCases ==
  { "", "a", "!a", "a&&b", "a||b", "a||b&&c", "a&&b||c", "(a||b)&&c",
    "!a&&b", "!(a&&b)", "!a||!b", "a&&(b||a)", "a||(b&&!c)" }

\* the token sequence of each formula: identifiers and runs of operators
EvalTokens(c) ==
  CASE c = ""           -> <<>>
    [] c = "a"          -> << ea >>
    [] c = "!a"         -> << <<"!">>, ea >>
    [] c = "a&&b"       -> << ea, AndOp, eb >>
    [] c = "a||b"       -> << ea, OrOp, eb >>
    [] c = "a||b&&c"    -> << ea, OrOp, eb, AndOp, ec >>
    [] c = "a&&b||c"    -> << ea, AndOp, eb, OrOp, ec >>
    [] c = "(a||b)&&c"  -> << <<"(">>, ea, OrOp, eb, <<")", "&", "&">>, ec >>
    [] c = "!a&&b"      -> << <<"!">>, ea, AndOp, eb >>
    [] c = "!(a&&b)"    -> << <<"!", "(">>, ea, AndOp, eb, <<")">> >>
    [] c = "!a||!b"     -> << <<"!">>, ea, <<"|", "|", "!">>, eb >>
    [] c = "a&&(b||a)"  -> << ea, <<"&", "&", "(">>, eb, OrOp, ea, <<")">> >>
    [] c = "a||(b&&!c)" -> << ea, <<"|", "|", "(">>, eb, <<"&", "&", "!">>, ec,
                              <<")">> >>

EvalStates ==
  {"Pending", "Dispatched", "Completed"}

\* a dependency-free agent with a function, in the given state
AgentInState(id, st) ==
  LET ag == createAgent(<<>>, id, <<>>).agents[1]
  IN  [ag EXCEPT !.func = TRUE,
                 !.waitingExec = IF st = "Dispatched" THEN "true" ELSE "false",
                 !.executed = IF st = "Completed" THEN "true" ELSE "false"]

\* the agent under evaluation, as createAgent leaves an agent with these tokens
AgentWithTokens(tokens, deff) ==
  [NewAgent EXCEPT !.id = <<"s">>,
                   !.expression = join(tokens),
                   !.tokenizedExpression = tokens,
                   !.dependencies =
                       arrayGetUniques(SelectSeq(tokens, LAMBDA t : t[1] \in IdChar)),
                   !.func = TRUE,
                   !.executed = "false",
                   !.waitingExec = "false",
                   !.deffDepCheck = deff,
                   !.canExecute = TRUE]

InitEval ==
  /\ evalCase \in EvalCases
  /\ evalResult = "none"
  /\ \E sa \in EvalStates, sb \in EvalStates, sc \in EvalStates, deff \in BOOLEAN :
       agents = << AgentInState(ea, sa), AgentInState(eb, sb),
                   AgentInState(ec, sc),
                   AgentWithTokens(EvalTokens(evalCase), deff) >>
  /\ timers = SelectSeq(<<1, 2, 3>>, LAMBDA i : Truthy(agents[i].waitingExec))
  /\ crashed = "none"
  /\ script = <<>>
  /\ runCalls = 1
  /\ hist = [i \in 1..4 |-> NewHist]
  /\ reports = 0
  /\ scans = 1
  /\ halted = FALSE

\* lines 172 to 183 of runAgents for the last agent of the registry
Evaluate ==
  /\ evalResult = "none"
  /\ evalResult' = ScanDecision(agents, Len(agents))
  /\ UNCHANGED <<agents, timers, crashed, script, runCalls, hist, reports, scans,
                 halted, evalCase>>

NextEval ==
  Evaluate

SpecEval ==
  InitEval /\ [][NextEval]_vars

(***************************************************************************)
(* The states of a task in the words of the specification.                 *)
(***************************************************************************)
Pending(ag) ==
  ~Truthy(ag.executed) /\ ~Truthy(ag.waitingExec)

InFlight(ag) ==
  Truthy(ag.waitingExec)

Completed(ag) ==
  Truthy(ag.executed)

\* the index of the agent that holds the id
IndexOf(ags, id) ==
  CHOOSE i \in 1..Len(ags) : ags[i].id = id

(***************************************************************************)
(* Properties.                                                             *)
(***************************************************************************)

\* C1: whatever the registry, the flags, the order of completion and the
\* extra runAgents() calls, no agent is dispatched (waitingExec set by
\* execute) more than once and no agent's function is called more than once.
C1_DispatchedAtMostOnce ==
  \A i \in 1..Len(hist) : hist[i].dispatched <= 1 /\ hist[i].invoked <= 1

\* a second runAgents() scanned while an agent dispatched by the first scan
\* was still waiting for its timer
C1_Witness ==
  /\ runCalls = 2
  /\ scans = 2
  /\ \E i \in 1..Len(agents) :
       InFlight(agents[i]) /\ hist[i].scan = 1 /\ hist[i].dispatched = 1

\* C2: once an agent with haltsExecution has failed, the agency performs no
\* further scan of its own and every Pending agent stays Pending (steps other
\* than a new runAgents() call by the program).
C2_HaltStopsTheRun ==
  [][(halted /\ runCalls' = runCalls)
       => /\ scans' = scans
          /\ \A i \in 1..Len(agents) :
               Pending(agents[i]) => Pending(agents'[i])]_vars

\* C3: in a run started by one runAgents() call report() is called exactly
\* once: never twice, and once when no timer is left.
C3_ReportFiresExactlyOnce ==
  runCalls = 1 =>
    /\ reports <= 1
    /\ (timers = <<>> /\ crashed = "none") => reports = 1

MidScan(i) ==
  [j \in 1..Len(agents') |->
     IF j > i /\ j <= Len(agents)
     THEN [agents'[j] EXCEPT !.waitingExec = agents[j].waitingExec]
     ELSE agents'[j]]

\* usage case #2 is set up: id1, id2 and id3 created, in some order
ScenarioA ==
  script \in Orders(CallsA) /\ Len(agents) = 3

\* C5: an agent with an expression is dispatched only by a scan in which its
\* expression evaluates to true; in usage case #2, in every creation order,
\* id3 (deffDepCheck left false) is dispatched only when id1 and id2 are
\* Completed, and id1 and id2, given functions, are dispatched by the first scan.
C5_DispatchOnlyWhenReady ==
  [][/\ \A i \in 1..Len(agents) :
          (hist'[i].dispatched > hist[i].dispatched /\ agents[i].expression # <<>>)
            => evaluateLogicalExpression(MidScan(i), agents'[i]) = "true"
     /\ ScenarioA' =>
          LET i1 == IndexOf(agents', id1)
              i2 == IndexOf(agents', id2)
              i3 == IndexOf(agents', id3)
          IN  /\ (hist'[i3].dispatched >= 1 /\ ~agents'[i3].deffDepCheck)
                   => Completed(agents'[i1]) /\ Completed(agents'[i2])
              /\ (/\ scans' >= 1
                  /\ agents'[i1].canExecute /\ agents'[i1].func
                  /\ agents'[i2].canExecute /\ agents'[i2].func)
                   => hist'[i1].scan = 1 /\ hist'[i2].scan = 1]_vars

\* usage case #2 with id3 created first: id1 and id2 went out in the first
\* scan and id3 in a later one
C5_Witness ==
  /\ ScenarioA
  /\ IndexOf(agents, id3) = 1
  /\ ~agents[1].deffDepCheck
  /\ hist[1].dispatched = 1 /\ hist[1].scan > 1
  /\ hist[2].scan = 1 /\ hist[3].scan = 1

\* usage case #5 is set up: id1 then id2 with "!id1", both with functions
ScenarioC ==
  /\ script = ScriptC /\ Len(agents) = 2
  /\ agents[1].canExecute /\ agents[1].func
  /\ agents[2].canExecute /\ agents[2].func

\* C9: in usage case #5, with deffDepCheck false on id2 both agents are
\* dispatched by the first scan; with deffDepCheck true id2 is never dispatched.
C9_DeferredCheckDecides ==
  (ScenarioC /\ scans >= 1) =>
    IF agents[2].deffDepCheck
    THEN hist[2].dispatched = 0
    ELSE hist[1].scan = 1 /\ hist[2].scan = 1

\* the run is over with the flag true: id1 is Completed, id2 never went out
C9_Witness ==
  /\ ScenarioC
  /\ agents[2].deffDepCheck
  /\ Completed(agents[1]) /\ timers = <<>> /\ scans >= 2
  /\ hist[2].dispatched = 0

\* usage case #3 is set up: the chain of four, every agent with a function and
\* deffDepCheck left false, and one runAgents() call
ScenarioB ==
  /\ script = ScriptB /\ Len(agents) = 4
  /\ \A i \in 1..4 :
       agents[i].canExecute /\ agents[i].func /\ ~agents[i].deffDepCheck
  /\ runCalls = 1

\* C10: in usage case #3, when id3 has haltsExecution and its function throws,
\* id4 is never dispatched and report() is called.
C10_ChainHalts ==
  (ScenarioB /\ agents[3].haltsExecution /\ agents[3].result = "Error")
    => hist[4].dispatched = 0 /\ reports >= 1

\* id3 threw with haltsExecution set, after id1 and id2 completed
C10_Witness ==
  /\ ScenarioB
  /\ agents[3].haltsExecution /\ agents[3].result = "Error"
  /\ Completed(agents[1]) /\ Completed(agents[2]) /\ Completed(agents[3])
  /\ Pending(agents[4])


\* C6: createAgent returns normally for every id and every expression over
\* the accepted characters: no exception leaves the call.
C6_CreateAgentNeverThrows ==
  crashed # "createAgent"

\* C7: the negation examples are accepted: the agent created with one of them
\* as its expression is enabled and holds tokens and dependencies for it.
C7_NegationAccepted ==
  (/\ script[1].id = <<"x">>
   /\ script[1].expr \in NegationExamples
   /\ (agents # <<>> \/ crashed # "none"))
    => /\ crashed = "none"
       /\ agents[1].canExecute
       /\ join(agents[1].tokenizedExpression) = script[1].expr
       /\ agents[1].dependencies # <<>>

\* the readiness of dependency i as the agent under evaluation sees it
EvalReady(i) ==
  Completed(agents[i]) \/ (agents[4].deffDepCheck /\ InFlight(agents[i]))

\* the value of each formula: ! binds tightest, then &&, then ||
EvalExpected(c, a, b, cc) ==
  CASE c = ""           -> TRUE
    [] c = "a"          -> a
    [] c = "!a"         -> ~a
    [] c = "a&&b"       -> a /\ b
    [] c = "a||b"       -> a \/ b
    [] c = "a||b&&c"    -> a \/ (b /\ cc)
    [] c = "a&&b||c"    -> (a /\ b) \/ cc
    [] c = "(a||b)&&c"  -> (a \/ b) /\ cc
    [] c = "!a&&b"      -> (~a) /\ b
    [] c = "!(a&&b)"    -> ~(a /\ b)
    [] c = "!a||!b"     -> (~a) \/ (~b)
    [] c = "a&&(b||a)"  -> a /\ (b \/ a)
    [] c = "a||(b&&!c)" -> a \/ (b /\ ~cc)

\* C8: the scan executes the agent exactly when its formula is true of the
\* readiness of a, b and c, with ! binding tightest, then &&, then ||, and
\* parentheses overriding; an agent without tokens is executed.
C8_EvaluatorFollowsPrecedence ==
  evalResult # "none" =>
    evalResult = IF EvalExpected(evalCase, EvalReady(1), EvalReady(2), EvalReady(3))
                 THEN "execute" ELSE "skip"

\* "a||(b&&!c)" with a false, b true and c false was evaluated, and is true
C8_Witness ==
  /\ evalCase = "a||(b&&!c)"
  /\ ~EvalReady(1) /\ EvalReady(2) /\ ~EvalReady(3)
  /\ evalResult = "execute"

\* some dependency of the agent is the id of no agent of the registry
HasUnknownDependency(ags, ag) ==
  \E k \in 1..Len(ag.dependencies) :
    \A j \in 1..Len(ags) : ags[j].id # ag.dependencies[k]

\* C11: an enabled agent whose expression names an id that no agent holds is
\* never dispatched, stays Pending (and enabled once the run has begun), and
\* every scan that reaches its end adds exactly one InvalidDependency event
\* for it, whatever the state of its other dependencies.
C11_UnknownDependencyLogsOncePerScan ==
  [][\A i \in 1..Len(agents) :
       (agents[i].canExecute /\ HasUnknownDependency(agents, agents[i]))
         => /\ hist'[i].dispatched = 0
            /\ Pending(agents'[i])
            /\ runCalls >= 1 => agents'[i].canExecute
            /\ hist'[i].events =
                 hist[i].events
                   + (IF scans' > scans /\ crashed' = "none" THEN 1 ELSE 0)]_vars

\* id1 has completed, two scans have passed, and id2 ("id1||idX") has an
\* event for each and was never dispatched
C11_Witness ==
  /\ script = ScriptUnknownOr /\ Len(agents) = 2
  /\ Completed(agents[1])
  /\ agents[2].canExecute /\ agents[2].func
  /\ scans = 2 /\ hist[2].events = 2 /\ hist[2].dispatched = 0

\* agent j holds the id and is disabled
DisabledHolder(ags, id) ==
  \E j \in 1..Len(ags) : ags[j].id = id /\ ~ags[j].canExecute

\* C12: an agent that depends on a disabled agent sees it as false: the scan
\* of runAgents() ends normally, and an agent whose expression is the id of a
\* disabled agent is never dispatched.
C12_DisabledDependencyIsFalse ==
  /\ crashed # "runAgents"
  /\ \A i \in 1..Len(agents) :
       (/\ Len(agents[i].dependencies) = 1
        /\ agents[i].expression = agents[i].dependencies[1]
        /\ DisabledHolder(agents, agents[i].dependencies[1]))
         => hist[i].dispatched = 0

\* C13: a disabled agent (canExecute false, whether by createAgent, setFunction
\* or setCallback) is dispatched by no scan and no step enables it again.
C13_DisabledNeverDispatched ==
  [][\A i \in 1..Len(agents) :
       ~agents[i].canExecute
         => /\ ~agents'[i].canExecute
            /\ hist'[i].dispatched = hist[i].dispatched
            /\ ~InFlight(agents'[i])]_vars

\* after two scans: an agent that was given a function and then disabled by
\* setCallback, one disabled by createAgent, and an agent that completed
C13_Witness ==
  /\ scans >= 2
  /\ \E i, j, k \in 1..Len(agents) :
       /\ ~agents[i].canExecute /\ agents[i].func /\ agents[i].executed = "false"
       /\ hist[i].dispatched = 0
       /\ ~agents[j].canExecute /\ agents[j].executed = "undefined"
       /\ Completed(agents[k])

\* the k-th createAgent call named an id that an earlier agent held
DuplicateCall(k) ==
  \E j \in 1..(k - 1) : agents[j].id = script[k].id

\* C19: a createAgent call with an id that an agent of the registry holds
\* (the same characters, in the same case) makes a disabled agent that holds
\* no id and is never dispatched; a call with a valid id that no agent holds
\* gives that id to the new agent; no two agents ever hold the same id; and
\* the call leaves the agents already in the registry as they were.
C19_DuplicateIdIsRejected ==
  [][/\ \A k \in 1..Len(agents') :
          IF DuplicateCall(k)'
          THEN /\ ~agents'[k].canExecute
               /\ agents'[k].id = <<>>
               /\ hist'[k].dispatched = 0
          ELSE validateId(<<>>, script[k].id) = "ok"
                 => agents'[k].id = script[k].id
     /\ \A i, j \in 1..Len(agents') :
          (i # j /\ agents'[i].id = agents'[j].id) => agents'[i].id = <<>>
     /\ Len(agents') > Len(agents)
          => SubSeq(agents', 1, Len(agents)) = agents]_vars

\* id1, a second id1 and ID1 were created: the second is disabled, the others
\* ran to completion
C19_Witness ==
  /\ script = ScriptDuplicate /\ Len(agents) = 3
  /\ ~agents[2].canExecute /\ agents[2].id = <<>>
  /\ agents[1].id = id1 /\ agents[3].id = ID1
  /\ Completed(agents[1]) /\ Completed(agents[3])

\* C14: when the function of an agent asks getValueOfAgent for a declared
\* dependency that completed before the agent was dispatched, it gets the
\* value the dependency's function returned or threw, whatever that value;
\* for an id that is not a declared dependency it gets null.
C14_GetValueReturnsTheResult ==
  \A i \in 1..Len(agents) :
    hist[i].invoked = 1 =>
      \A k \in 1..Len(AskIds) :
        IF \E d \in 1..Len(agents[i].dependencies) :
             agents[i].dependencies[d] = AskIds[k]
        THEN \A j \in 1..Len(agents) :
               (/\ agents[j].id = AskIds[k]
                /\ hist[j].invoked = 1
                /\ hist[j].scan < hist[i].scan)
                 => hist[i].got[k] = hist[j].returned
        ELSE hist[i].got[k] = "null"

\* C15 as claimed: the first call of the callback is (null, value) when the
\* function returned and (error, null) when it threw.
C15_CallbackGetsErrorAndNull ==
  \A i \in 1..Len(agents) :
    (hist[i].invoked = 1 /\ agents[i].callback) =>
      /\ Len(hist[i].cbArgs) >= 1
      /\ hist[i].cbArgs[1] = IF hist[i].failed
                             THEN <<hist[i].returned, "null">>
                             ELSE <<"null", hist[i].returned>>

\* C15 as amended: the first call of the callback is (null, value) when the
\* function returned and (error) when it threw: the second parameter is not
\* sent, so the callback reads undefined there.
C15_CallbackGetsErrorAlone ==
  \A i \in 1..Len(agents) :
    (hist[i].invoked = 1 /\ agents[i].callback) =>
      /\ Len(hist[i].cbArgs) >= 1
      /\ hist[i].cbArgs[1] = IF hist[i].failed
                             THEN <<hist[i].returned, "undefined">>
                             ELSE <<"null", hist[i].returned>>

\* id1's function returned 10 and id2's threw, each with a callback
C15_Witness ==
  /\ script = ScriptValue /\ Len(agents) = 2
  /\ agents[1].callback /\ agents[2].callback
  /\ hist[1].cbArgs = << <<"null", "10">> >>
  /\ hist[2].cbArgs = << <<"Error", "undefined">> >>

\* the open parentheses less the closing ones among the first k characters
Balance(pe, k) ==
  Cardinality({i \in 1..k : pe[i] = "("}) - Cardinality({i \in 1..k : pe[i] = ")"})

\* the position of the first ')' that stands where the counter is zero
Unopened(pe) ==
  { k \in 1..Len(pe) :
      /\ pe[k] = ")"
      /\ Balance(pe, k - 1) = 0
      /\ \A j \in 1..(k - 1) : Balance(pe, j) >= 0 }

\* the n-th createAgent call got as far as character k of its expression
ParserReached(n, k) ==
  hist[n].error = "ok" \/ (hist[n].errpos >= k /\ hist[n].errpos > 0)

C17_TerminatorDecides ==
  \A n \in 1..Len(hist) :
    LET pe == StripSpaces(script[n].expr)
    IN  (/\ pe # <<>>
         /\ hist[n].error \in {"ok", "UnclosedParentheses", "InvalidTerminator"})
          => hist[n].error =
               IF pe[Len(pe)] \in IdChar \cup {")"}
               THEN (IF Balance(pe, Len(pe)) = 0 THEN "ok"
                     ELSE "UnclosedParentheses")
               ELSE "InvalidTerminator"

\* the identifiers of an expression: the maximal runs of identifier characters
IdRuns(pe) ==
  { SubSeq(pe, ab[1], ab[2]) :
      ab \in { x \in (1..Len(pe)) \X (1..Len(pe)) :
                /\ x[1] <= x[2]
                /\ \A i \in x[1]..x[2] : pe[i] \in IdChar
                /\ (x[1] = 1 \/ pe[x[1] - 1] \notin IdChar)
                /\ (x[2] = Len(pe) \/ pe[x[2] + 1] \notin IdChar) } }

\* C18: an agent that was created successfully never has its own id among
\* its dependencies; an expression in which an identifier is exactly the
\* owner's id is never accepted, and is rejected with SelfDependency when it
\* is an expression another owner could have; SelfDependency is given for an
\* exact match only, not for an identifier that begins or ends with the id.
C18_NoSelfDependency ==
  \A n \in 1..Len(hist) :
    LET pe == StripSpaces(script[n].expr)
        id == script[n].id
    IN  hist[n].error \notin {"ValidateIdError", "DuplicateIdError"} =>
          /\ agents[n].canExecute
               => \A k \in 1..Len(agents[n].dependencies) :
                    agents[n].dependencies[k] # id
          /\ id \in IdRuns(pe) => hist[n].error # "ok"
          /\ (id \in IdRuns(pe) /\ parseExpression(<<"z">>, pe).status = "ok")
               => hist[n].error = "SelfDependency"
          /\ hist[n].error = "SelfDependency" => id \in IdRuns(pe)

\* createAgent('a', 'b||a') was rejected for its last identifier
C18_Witness ==
  /\ Len(hist) = 1
  /\ script[1] = Call(ea, eb \o OrOp \o ea)
  /\ hist[1].error = "SelfDependency"
  /\ ~agents[1].canExecute

\* an enabled agent without dependencies that was given a function
FreeAgent(ag) ==
  ag.expression = <<>> /\ ag.canExecute /\ ag.func

\* C20: the agents a scan dispatches have their timers set in creation order
\* (the queue of timers holds the scans in order, and within one scan the
\* agents in creation order), and the functions of the agents without
\* dependencies are called in creation order.
C20_CreationOrder ==
  /\ \A p, q \in 1..Len(timers) :
       p < q =>
         \/ hist[timers[p]].scan < hist[timers[q]].scan
         \/ (hist[timers[p]].scan = hist[timers[q]].scan /\ timers[p] < timers[q])
  /\ \A i, j \in 1..Len(agents) :
       (/\ i < j /\ FreeAgent(agents[i]) /\ FreeAgent(agents[j])
        /\ hist[j].invoked = 1)
         => hist[i].invoked = 1

\* three agents without dependencies, dispatched by one scan: the first two
\* have run and the third waits for its timer
C20_Witness ==
  /\ script = ScriptFree /\ Len(agents) = 3
  /\ \A i \in 1..3 : FreeAgent(agents[i]) /\ hist[i].scan = 1
  /\ hist[1].invoked = 1 /\ hist[2].invoked = 1 /\ hist[3].invoked = 0
  /\ timers = <<3>>

\* agent j waits for a timer that is still to fire
HasTimer(j) ==
  \E k \in 1..Len(timers) : timers[k] = j

\* C21: a failed agent with haltsExecution stops none of the agents that are
\* already Dispatched: the step that halts leaves each of them waiting with
\* its timer set, a later step leaves it so or calls its function and makes
\* it Completed, and with the timers firing each of them is called once and
\* reaches Completed.
C21_HaltSparesTheDispatched ==
  /\ [][\A j \in 1..Len(agents) :
          (halted' /\ InFlight(agents[j]))
            => \/ InFlight(agents'[j]) /\ HasTimer(j)'
                    /\ hist'[j].invoked = hist[j].invoked
               \/ Completed(agents'[j]) /\ ~InFlight(agents'[j])
                    /\ hist'[j].invoked = hist[j].invoked + 1]_vars
  /\ \A j \in 1..3 :
       (halted /\ Len(agents) >= j /\ InFlight(agents[j]))
         ~> (Len(agents) >= j /\ Completed(agents[j]) /\ hist[j].invoked = 1)

\* id1 failed with haltsExecution while id2 was waiting for its timer, and
\* id2 has since been called and is Completed
C21_Witness ==
  /\ ScenarioA /\ halted
  /\ \E i, j \in 1..Len(agents) :
       /\ agents[i].haltsExecution /\ hist[i].failed /\ Completed(agents[i])
       /\ i # j /\ hist[j].scan = hist[i].scan
       /\ Completed(agents[j]) /\ hist[j].invoked = 1
       /\ agents[j].result = "10"
       /\ reports = 1 /\ scans = 2

\* agent i was ready when the scan of this step reached it: it has no
\* expression, or its expression evaluated to true
ReadyInScan(i) ==
  \/ agents[i].expression = <<>>
  \/ evaluateLogicalExpression(MidScan(i), agents'[i]) = "true"

\* C22: every agent that a scan finds Pending, enabled and ready is
\* Dispatched by that scan (it waits for its timer when the scan is over),
\* whether or not a function was set for it.
C22_ReadyIsDispatched ==
  [][(scans' > scans /\ crashed' = "none")
       => \A i \in 1..Len(agents) :
            (Pending(agents[i]) /\ agents[i].canExecute /\ ReadyInScan(i))
              => /\ InFlight(agents'[i])
                 /\ hist'[i].dispatched = hist[i].dispatched + 1]_vars

\* C23: when the callback of an agent is called the agent is already
\* Completed and its result is recorded: first the state, then the result,
\* then the callback, and only then the next scan or the halt.
C23_HandlerSeesCompleted ==
  \A i \in 1..Len(hist) :
    \A k \in 1..Len(hist[i].cbSaw) :
      /\ Completed(hist[i].cbSaw[k]) /\ ~InFlight(hist[i].cbSaw[k])
      /\ hist[i].cbSaw[k].result # "undefined"

\* C24: a step leaves the function, the callback and the two flags of an
\* agent that is Dispatched or Completed as they were: setFunction,
\* setCallback, setHaltExecution and setDeffDepCheck change an agent only
\* while it is Pending.
C24_ConfiguredOnlyWhilePending ==
  [][\A i \in 1..Len(agents) :
       (InFlight(agents[i]) \/ Completed(agents[i]))
         => /\ agents'[i].func = agents[i].func
            /\ agents'[i].callback = agents[i].callback
            /\ agents'[i].haltsExecution = agents[i].haltsExecution
            /\ agents'[i].deffDepCheck = agents[i].deffDepCheck]_vars

\* an identifier token: every character is an identifier character
IsIdToken(t) ==
  t # <<>> /\ \A c \in 1..Len(t) : t[c] \in IdChar

\* an operator token: no character is an identifier character
IsOpToken(t) ==
  t # <<>> /\ \A c \in 1..Len(t) : t[c] \in {"&", "|", "!", "(", ")"}

\* C25: for every accepted expression the tokens are identifier tokens and
\* operator tokens in alternation, their concatenation is the expression
\* without its spaces, the identifier tokens are the maximal runs of
\* identifier characters, and the dependencies are the distinct identifier
\* tokens, each listed once.
C25_TokensRebuildTheExpression ==
  \A n \in 1..Len(hist) :
    (hist[n].error = "ok" /\ agents[n].canExecute) =>
      LET pe   == StripSpaces(script[n].expr)
          toks == agents[n].tokenizedExpression
          deps == agents[n].dependencies
      IN  /\ \A k \in 1..Len(toks) : IsIdToken(toks[k]) \/ IsOpToken(toks[k])
          /\ \A k \in 1..(Len(toks) - 1) :
               IsIdToken(toks[k]) # IsIdToken(toks[k + 1])
          /\ join(toks) = pe
          /\ agents[n].expression = pe
          /\ {toks[k] : k \in {j \in 1..Len(toks) : IsIdToken(toks[j])}} = IdRuns(pe)
          /\ {deps[k] : k \in 1..Len(deps)} = IdRuns(pe)
          /\ \A i, j \in 1..Len(deps) : deps[i] = deps[j] => i = j

\* createAgent('x', '(a||b)&&c') was accepted with six tokens; and
\* createAgent('x', 'a||a') with one dependency
C25_Witness ==
  /\ Len(hist) = 1 /\ hist[1].error = "ok" /\ agents[1].canExecute
  /\ \/ /\ script[1] = Call(<<"x">>, <<"(">> \o ea \o OrOp \o eb \o <<")">> \o AndOp \o ec)
        /\ agents[1].tokenizedExpression
             = << <<"(">>, ea, OrOp, eb, <<")", "&", "&">>, ec >>
        /\ agents[1].dependencies = <<ea, eb, ec>>
     \/ /\ script[1] = Call(<<"x">>, ea \o OrOp \o ea)
        /\ agents[1].tokenizedExpression = <<ea, OrOp, ea>>
        /\ agents[1].dependencies = <<ea>>

\* C26: the callback of an agent is called at most once; when the function
\* returned, the result recorded is the value it returned (as setResult
\* stores it) even if the callback threw, and the agency is halted only by
\* an agent whose function threw.
C26_HandlerCalledOnce ==
  /\ \A i \in 1..Len(hist) :
       /\ hist[i].cbCalls <= 1
       /\ (hist[i].invoked = 1 /\ ~hist[i].failed)
            => agents[i].result = setResult(hist[i].returned)
  /\ halted => \E i \in 1..Len(hist) :
                 hist[i].failed /\ agents[i].haltsExecution

\* C27: with the timers firing and every function returning or throwing,
\* every run that runAgents() started comes to a state in which no agent is
\* Dispatched and report() has been called, whatever the registry.
C27_EveryRunReports ==
  (runCalls >= 1)
    ~> (reports >= 1 /\ \A i \in 1..Len(agents) : ~InFlight(agents[i]))

\* the two agents of the cycle were created as written
ScenarioCycle ==
  script = ScriptCycle /\ Len(agents) = 3

\* C29: two agents that wait for each other are both accepted by createAgent
\* (there is no cycle detection), are never dispatched, stay Pending and,
\* once the run has begun, as enabled as they were; and with the timers
\* firing the run comes to a state with no agent Dispatched and report()
\* called.
C29_CycleNeverDispatched ==
  /\ [](ScenarioCycle =>
          \A i \in 1..2 :
            /\ hist[i].error = "ok"
            /\ agents[i].dependencies = << script[3 - i].id >>
            /\ hist[i].dispatched = 0
            /\ Pending(agents[i]))
  /\ [][(ScenarioCycle /\ runCalls >= 1)
          => \A i \in 1..2 : agents'[i].canExecute = agents[i].canExecute]_vars
  /\ (ScenarioCycle /\ runCalls >= 1)
       ~> (reports >= 1 /\ timers = <<>>
             /\ \A i \in 1..Len(agents) : ~InFlight(agents[i]))

\* the run is over: id3 is Completed, report() was called, and the two agents
\* of the cycle, enabled and with functions, were never dispatched
C29_Witness ==
  /\ ScenarioCycle
  /\ \A i \in 1..2 : agents[i].canExecute /\ agents[i].func /\ Pending(agents[i])
                        /\ hist[i].dispatched = 0
  /\ Completed(agents[3]) /\ timers = <<>> /\ reports >= 1 /\ scans >= 2

\* usage case #2 is set up with every agent enabled and given a function
ScenarioAllSet ==
  /\ ScenarioA
  /\ \A i \in 1..3 : agents[i].canExecute /\ agents[i].func

\* C28: in usage case #2 (negation-free, every dependency registered, no
\* cycle), in every creation order, with every agent enabled and given a
\* function, a run that runAgents() started and that no failed agent with
\* haltsExecution halts calls every function once and makes every agent
\* Completed.
C28_EveryAgentCompletes ==
  (ScenarioAllSet /\ runCalls >= 1)
    ~> \/ halted
       \/ /\ Len(agents) = 3
          /\ \A i \in 1..3 : Completed(agents[i]) /\ hist[i].invoked = 1

\* id3 was created first and dispatched last; all three are Completed, one
\* of them (without haltsExecution) after its function threw
C28_Witness ==
  /\ ScenarioAllSet /\ ~halted
  /\ IndexOf(agents, id3) = 1
  /\ \A i \in 1..3 : Completed(agents[i]) /\ hist[i].invoked = 1
  /\ hist[1].scan > hist[2].scan /\ hist[1].scan > hist[3].scan
  /\ \E i \in 2..3 : hist[i].failed

\* the registry as the scan of this step found it: the agents the scan
\* dispatched were not yet waiting
ScanStart ==
  [j \in 1..Len(agents') |->
     IF hist'[j].dispatched > hist[j].dispatched
     THEN [agents'[j] EXCEPT !.waitingExec = "false"]
     ELSE agents'[j]]

\* the registry in the opposite creation order
Reversed(ags) ==
  [k \in 1..Len(ags) |-> ags[Len(ags) + 1 - k]]

\* C30: when no agent has deffDepCheck set, a scan dispatches exactly the
\* agents that it found Pending, enabled, given a function and with an
\* expression that is empty or true of the agents Completed when the scan
\* began, the same agents as if the registry were in the opposite order;
\* and no agent becomes Completed in a scan: an agent the scan dispatches
\* is not Completed after it, and an agent becomes Completed only from
\* Dispatched, when its timer fires.
C30_ScanDependsOnCompletedOnly ==
  [][/\ (/\ scans' > scans /\ crashed' = "none"
          /\ \A i \in 1..Len(agents) : ~agents[i].deffDepCheck)
         => \A i \in 1..Len(agents) :
              (hist'[i].dispatched > hist[i].dispatched)
                <=> /\ CanStart(ScanStart[i]) /\ ScanStart[i].func
                    /\ \/ ScanStart[i].expression = <<>>
                       \/ evaluateLogicalExpression(Reversed(ScanStart),
                                                    ScanStart[i]) = "true"
     /\ \A i \in 1..Len(agents) :
          /\ hist'[i].dispatched > hist[i].dispatched => ~Completed(agents'[i])
          /\ (Completed(agents'[i]) /\ ~Completed(agents[i]))
               => InFlight(agents[i]) /\ hist'[i].invoked = hist[i].invoked + 1]_vars

\* usage case #2 with id3 created first and no deffDepCheck: the first scan
\* dispatched id1 and id2 and not id3, and a later scan dispatched id3
C30_Witness ==
  /\ ScenarioA
  /\ IndexOf(agents, id3) = 1
  /\ \A i \in 1..3 : ~agents[i].deffDepCheck /\ agents[i].func
  /\ hist[2].scan = 1 /\ hist[3].scan = 1
  /\ hist[1].scan = 3 /\ InFlight(agents[1])

=============================================================================
